---- MODULE Spec2Model ----
(***************************************************************************)
(* A model of the Simple Perpetuals Python client (src/example/client.py): *)
(* the account codec (Position.from_bytes, MarketState.from_bytes), the    *)
(* account fetches (get_position, get_market_state), the risk functions    *)
(* (calculate_position_health, calculate_unrealized_pnl) and the           *)
(* liquidation monitor (PositionMonitor.monitor_liquidations).             *)
(*                                                                         *)
(* Python's int is unbounded and the accounts hold 64-bit fields, while     *)
(* TLC's integers are 32-bit.  An int of the program is therefore modelled *)
(* as a record [neg, mag]: its sign and its magnitude as a little-endian   *)
(* sequence of base-256 digits without leading zero digits (zero is the    *)
(* empty magnitude).  All arithmetic below is exact.                       *)
(***************************************************************************)
EXTENDS Integers, Sequences, FiniteSets, TLC

Byte == 0..255

(***************************************************************************)
(* Natural numbers: little-endian base-256 magnitudes.                     *)
(***************************************************************************)
RECURSIVE NNorm(_)
NNorm(s) ==
    IF s = <<>> THEN s
    ELSE IF s[Len(s)] = 0 THEN NNorm(SubSeq(s, 1, Len(s) - 1)) ELSE s

Limb(a, i) == IF i <= Len(a) THEN a[i] ELSE 0

RECURSIVE NCmpAt(_, _, _)
NCmpAt(a, b, i) ==
    IF i = 0 THEN 0
    ELSE IF a[i] < b[i] THEN -1
    ELSE IF a[i] > b[i] THEN 1
    ELSE NCmpAt(a, b, i - 1)

\* -1, 0 or 1 as a < b, a = b or a > b (both normalised)
NCmp(a, b) ==
    IF Len(a) < Len(b) THEN -1
    ELSE IF Len(a) > Len(b) THEN 1
    ELSE NCmpAt(a, b, Len(a))

RECURSIVE NAddAt(_, _, _, _, _)
NAddAt(a, b, i, carry, acc) ==
    IF i > Len(a) /\ i > Len(b)
    THEN (IF carry = 0 THEN acc ELSE Append(acc, carry))
    ELSE LET s == Limb(a, i) + Limb(b, i) + carry
         IN  NAddAt(a, b, i + 1, s \div 256, Append(acc, s % 256))

NAdd(a, b) == NAddAt(a, b, 1, 0, <<>>)

RECURSIVE NSubAt(_, _, _, _, _)
NSubAt(a, b, i, borrow, acc) ==
    IF i > Len(a) THEN NNorm(acc)
    ELSE LET d == a[i] - Limb(b, i) - borrow
         IN  IF d < 0 THEN NSubAt(a, b, i + 1, 1, Append(acc, d + 256))
             ELSE NSubAt(a, b, i + 1, 0, Append(acc, d))

\* a - b for a >= b
NSub(a, b) == NSubAt(a, b, 1, 0, <<>>)

RECURSIVE NMulSmallAt(_, _, _, _, _)
NMulSmallAt(a, k, i, carry, acc) ==
    IF i > Len(a)
    THEN (IF carry = 0 THEN acc
          ELSE NMulSmallAt(a, k, i, carry \div 256, Append(acc, carry % 256)))
    ELSE LET s == a[i] * k + carry
         IN  NMulSmallAt(a, k, i + 1, s \div 256, Append(acc, s % 256))

\* a * k for a factor 0 <= k < 2^16
NMulSmall(a, k) == IF k = 0 \/ a = <<>> THEN <<>> ELSE NMulSmallAt(a, k, 1, 0, <<>>)

Zeros(n) == [i \in 1..n |-> 0]

RECURSIVE NMulAt(_, _, _, _)
NMulAt(a, b, i, acc) ==
    IF i > Len(b) THEN acc
    ELSE NMulAt(a, b, i + 1,
                IF b[i] = 0 THEN acc
                ELSE NAdd(acc, Zeros(i - 1) \o NMulSmall(a, b[i])))

NMul(a, b) == IF a = <<>> \/ b = <<>> THEN <<>> ELSE NMulAt(a, b, 1, <<>>)

\* the largest digit d in lo..hi with b * d <= r
RECURSIVE QDigit(_, _, _, _)
QDigit(r, b, lo, hi) ==
    IF lo >= hi THEN lo
    ELSE LET mid == (lo + hi + 1) \div 2
         IN  IF NCmp(NMulSmall(b, mid), r) <= 0
             THEN QDigit(r, b, mid, hi)
             ELSE QDigit(r, b, lo, mid - 1)

\* the next quotient digit, for b <= r < 256 * b: it lies between the
\* quotients of r's leading digits by b's leading digit plus one, and by
\* b's leading digit (which is the digit itself when b has one digit)
NextDigit(r, b) ==
    LET n   == Len(b)
        top == Limb(r, n) + 256 * Limb(r, n + 1)
        hi  == top \div b[n]
    IN  IF n = 1 THEN hi
        ELSE QDigit(r, b, top \div (b[n] + 1), IF hi > 255 THEN 255 ELSE hi)

RECURSIVE NDivModAt(_, _, _, _, _)
NDivModAt(a, b, i, r, q) ==
    IF i = 0 THEN [q |-> NNorm(q), r |-> r]
    ELSE LET r1 == NNorm(<<a[i]>> \o r)
         IN  IF NCmp(r1, b) < 0
             THEN NDivModAt(a, b, i - 1, r1, <<0>> \o q)
             ELSE LET d == NextDigit(r1, b)
                  IN  NDivModAt(a, b, i - 1, NSub(r1, NMulSmall(b, d)), <<d>> \o q)

\* [q, r] with a = q * b + r and 0 <= r < b, for b # 0 (schoolbook long division)
NDivMod(a, b) == NDivModAt(a, b, Len(a), <<>>, <<>>)

RECURSIVE NFromNat(_)
NFromNat(n) == IF n = 0 THEN <<>> ELSE <<n % 256>> \o NFromNat(n \div 256)

RECURSIVE Pow2(_)
Pow2(n) == IF n = 0 THEN 1 ELSE 2 * Pow2(n - 1)

\* a * 2^k
NShl(a, k) ==
    IF a = <<>> THEN <<>>
    ELSE Zeros(k \div 8) \o NMulSmall(a, Pow2(k % 8))

RECURSIVE BitsOfDigit(_)
BitsOfDigit(d) == IF d = 0 THEN 0 ELSE 1 + BitsOfDigit(d \div 2)

\* int.bit_length() of a magnitude
NBits(a) == IF a = <<>> THEN 0 ELSE 8 * (Len(a) - 1) + BitsOfDigit(a[Len(a)])

(***************************************************************************)
(* Python int: sign and magnitude.                                         *)
(***************************************************************************)
MkInt(neg, mag) ==
    LET m == NNorm(mag) IN [neg |-> neg /\ m # <<>>, mag |-> m]

I(n) == IF n < 0 THEN MkInt(TRUE, NFromNat(-n)) ELSE MkInt(FALSE, NFromNat(n))

IZero == MkInt(FALSE, <<>>)

IsZero(a) == a.mag = <<>>

INeg(a) == MkInt(~a.neg, a.mag)

IAbs(a) == MkInt(FALSE, a.mag)

IAdd(a, b) ==
    IF a.neg = b.neg THEN MkInt(a.neg, NAdd(a.mag, b.mag))
    ELSE IF NCmp(a.mag, b.mag) >= 0 THEN MkInt(a.neg, NSub(a.mag, b.mag))
    ELSE MkInt(b.neg, NSub(b.mag, a.mag))

ISub(a, b) == IAdd(a, INeg(b))

IMul(a, b) == MkInt(a.neg # b.neg, NMul(a.mag, b.mag))

\* a < b
ILt(a, b) ==
    IF a.neg /\ ~b.neg THEN TRUE
    ELSE IF ~a.neg /\ b.neg THEN FALSE
    ELSE IF a.neg THEN NCmp(a.mag, b.mag) > 0
    ELSE NCmp(a.mag, b.mag) < 0

ILe(a, b) == a = b \/ ILt(a, b)

\* Python's a // b for b # 0: the floor of the quotient
IFloorDiv(a, b) ==
    LET d == NDivMod(a.mag, b.mag)
    IN  IF a.neg = b.neg THEN MkInt(FALSE, d.q)
        ELSE IF d.r = <<>> THEN MkInt(TRUE, d.q)
        ELSE MkInt(TRUE, NAdd(d.q, <<1>>))

(***************************************************************************)
(* Python float (IEEE-754 binary64), as far as the program uses it: the    *)
(* non-negative quotient of two ints, and positive infinity.  A finite     *)
(* float is man * 2^exp with man a magnitude.                              *)
(***************************************************************************)
FloatInf == [kind |-> "inf"]

Float(man, exp) == [kind |-> "fin", man |-> man, exp |-> exp]

DBL_MANT_DIG == 53

\* round-half-even of x (55 or 56 bits, inexact: a remainder was dropped) to 53 bits
RoundHalfEven(x, inexact, shift) ==
    LET extra  == NBits(x) - DBL_MANT_DIG
        low    == x[1] % Pow2(extra)
        kept   == NDivMod(x, <<Pow2(extra)>>).q
        half   == low \div Pow2(extra - 1) = 1
        sticky == low % Pow2(extra - 1) # 0 \/ inexact
        odd    == kept[1] % 2 = 1
    IN  Float(IF half /\ (sticky \/ odd) THEN NAdd(kept, <<1>>) ELSE kept,
              shift + extra)

\* Python's a / b for ints a >= 0 and b > 0: the double nearest to the
\* quotient (CPython's long_true_divide: a quotient of 55 or 56 bits, then
\* rounded half-to-even; for operands below 2^53 the hardware division
\* gives the same correctly rounded double)
TrueDiv(a, b) ==
    IF IsZero(a) THEN Float(<<>>, 0)
    ELSE LET shift == NBits(a.mag) - NBits(b.mag) - DBL_MANT_DIG - 2
             d     == IF shift <= 0
                      THEN NDivMod(NShl(a.mag, -shift), b.mag)
                      ELSE NDivMod(a.mag, NShl(b.mag, shift))
         IN  RoundHalfEven(d.q, d.r # <<>>, shift)

\* x < y for floats that are finite and non-negative, or positive infinity
FloatLt(x, y) ==
    IF x.kind = "inf" THEN FALSE
    ELSE IF y.kind = "inf" THEN TRUE
    ELSE LET e == IF x.exp < y.exp THEN x.exp ELSE y.exp
         IN  NCmp(NShl(x.man, x.exp - e), NShl(y.man, y.exp - e)) < 0

(***************************************************************************)
(* struct.pack / struct.unpack, little-endian, and bytes slicing.          *)
(***************************************************************************)
\* data[lo:hi] of Python: clipped to the data's length
Slice(data, lo, hi) ==
    LET h == IF hi < Len(data) THEN hi ELSE Len(data)
    IN  IF lo >= h THEN <<>> ELSE SubSeq(data, lo + 1, h)

TwoTo64 == Zeros(8) \o <<1>>

\* struct.unpack('<Q', s)[0] for 8 bytes s
UnpackQ(s) == MkInt(FALSE, s)

UnpackSignedQ_AsUnsigned(s) == MkInt(FALSE, s)

\* struct.unpack('<q', s)[0] for 8 bytes s: two's complement
UnpackSignedQ(s) ==
    IF s[8] >= 128 THEN MkInt(TRUE, NSub(TwoTo64, NNorm(s)))
    ELSE MkInt(FALSE, s)

\* struct.unpack('<B', s)[0] for 1 byte s
UnpackB(s) == MkInt(FALSE, s)

PadTo(mag, n) == mag \o Zeros(n - Len(mag))

\* struct.pack('<Q', v) for 0 <= v < 2^64
PackQ(v) == PadTo(v.mag, 8)

\* struct.pack('<q', v) for -2^63 <= v < 2^63
PackSignedQ(v) ==
    IF v.neg THEN PadTo(NSub(TwoTo64, v.mag), 8) ELSE PadTo(v.mag, 8)

\* struct.pack('<B', v) for 0 <= v < 256
PackB(v) == PadTo(v.mag, 1)

(***************************************************************************)
(* The account codec.  A call returns Ok(value) or Raise(exception).       *)
(***************************************************************************)
Ok(v) == [ok |-> TRUE, value |-> v]

Raise(e) == [ok |-> FALSE, exc |-> e]

POSITION_LEN == 64

MARKET_STATE_LEN == 41

InvalidPositionLength == "ValueError: Invalid position data length"

InvalidMarketStateLength == "ValueError: Invalid market state data length"

StructError == "struct.error: unpack requires a buffer of the format's size"

\* mutants of the decoders: a short buffer padded with zero bytes; a signed
\* field read as unsigned; a buffer accepted only at its exact width
Position_from_bytes_ZeroPad(data) ==
    LET d == IF Len(data) < POSITION_LEN THEN PadTo(data, POSITION_LEN) ELSE data
    IN  Ok([owner              |-> Slice(d, 0, 32),
            base_amount        |-> UnpackSignedQ(Slice(d, 32, 40)),
            collateral         |-> UnpackQ(Slice(d, 40, 48)),
            last_funding_index |-> UnpackSignedQ(Slice(d, 48, 56)),
            entry_price        |-> UnpackQ(Slice(d, 56, 64))])

Position_from_bytes_Strict(data) ==
    IF Len(data) # POSITION_LEN THEN Raise(InvalidPositionLength)
    ELSE Ok([owner              |-> Slice(data, 0, 32),
             base_amount        |-> UnpackSignedQ(Slice(data, 32, 40)),
             collateral         |-> UnpackQ(Slice(data, 40, 48)),
             last_funding_index |-> UnpackSignedQ(Slice(data, 48, 56)),
             entry_price        |-> UnpackQ(Slice(data, 56, 64))])

Position_from_bytes(data) ==
    IF Len(data) < POSITION_LEN THEN Raise(InvalidPositionLength)
    ELSE IF Len(Slice(data, 0, 32)) # 32
    THEN Raise("ValueError: expected a sequence of length 32")
    ELSE IF \E lo \in {32, 40, 48, 56} : Len(Slice(data, lo, lo + 8)) # 8
    THEN Raise(StructError)
    ELSE Ok([owner              |-> Slice(data, 0, 32),
             base_amount        |-> UnpackSignedQ(Slice(data, 32, 40)),
             collateral         |-> UnpackQ(Slice(data, 40, 48)),
             last_funding_index |-> UnpackSignedQ(Slice(data, 48, 56)),
             entry_price        |-> UnpackQ(Slice(data, 56, 64))])

MarketState_from_bytes(data) ==
    IF Len(data) < MARKET_STATE_LEN THEN Raise(InvalidMarketStateLength)
    ELSE IF \/ \E lo \in {0, 8, 16, 25, 33} : Len(Slice(data, lo, lo + 8)) # 8
            \/ Len(Slice(data, 24, 25)) # 1
    THEN Raise(StructError)
    ELSE Ok([funding_index         |-> UnpackSignedQ(Slice(data, 0, 8)),
             funding_rate_per_slot |-> UnpackSignedQ(Slice(data, 8, 16)),
             open_interest         |-> UnpackQ(Slice(data, 16, 24)),
             bump                  |-> UnpackB(Slice(data, 24, 25)),
             last_funding_slot     |-> UnpackQ(Slice(data, 25, 33)),
             mark_price            |-> UnpackQ(Slice(data, 33, 41))])

\* the 64 bytes the tests pack for a Position
PackPosition(p) ==
    p.owner \o PackSignedQ(p.base_amount) \o PackQ(p.collateral)
        \o PackSignedQ(p.last_funding_index) \o PackQ(p.entry_price)

\* the 41 bytes the tests pack for a MarketState
PackMarketState(m) ==
    PackSignedQ(m.funding_index) \o PackSignedQ(m.funding_rate_per_slot)
        \o PackQ(m.open_interest) \o PackB(m.bump)
        \o PackQ(m.last_funding_slot) \o PackQ(m.mark_price)

(***************************************************************************)
(* The risk functions.                                                     *)
(***************************************************************************)
PRECISION == 1000000000

\* mutants of the health: the ratio taken with floor division; a flat
\* position given health 0 instead of infinity
calculate_position_health_FloorRatio(position, mark_price) ==
    IF IsZero(position.base_amount) THEN FloatInf
    ELSE LET position_value ==
                 IFloorDiv(IMul(IAbs(position.base_amount), mark_price), I(PRECISION))
         IN  IF IsZero(position_value) THEN FloatInf
             ELSE Float(IFloorDiv(position.collateral, position_value).mag, 0)

calculate_position_health_FlatZero(position, mark_price) ==
    IF IsZero(position.base_amount) THEN Float(<<>>, 0)
    ELSE LET position_value ==
                 IFloorDiv(IMul(IAbs(position.base_amount), mark_price), I(PRECISION))
         IN  IF IsZero(position_value) THEN FloatInf
             ELSE TrueDiv(position.collateral, position_value)

calculate_position_health(position, mark_price) ==
    IF IsZero(position.base_amount) THEN FloatInf
    ELSE LET position_value ==
                 IFloorDiv(IMul(IAbs(position.base_amount), mark_price), I(PRECISION))
         IN  IF IsZero(position_value) THEN FloatInf
             ELSE TrueDiv(position.collateral, position_value)

calculate_unrealized_pnl(position, mark_price) ==
    IF IsZero(position.base_amount) THEN IZero
    ELSE LET position_size == IAbs(position.base_amount)
         IN  IF ILt(IZero, position.base_amount)
             THEN IFloorDiv(IMul(ISub(mark_price, position.entry_price), position_size),
                            I(PRECISION))
             ELSE IFloorDiv(IMul(ISub(position.entry_price, mark_price), position_size),
                            I(PRECISION))

\* the liquidation threshold 1.5 of the monitor and of the summary
LiquidationThreshold == Float(<<3>>, -1)

\* mutant: health <= 1.5
is_liquidatable_Le(health) == ~FloatLt(LiquidationThreshold, health)

\* the test of monitor_liquidations and get_position_summary: health < 1.5
is_liquidatable(health) == FloatLt(health, LiquidationThreshold)

(***************************************************************************)
(* State.                                                                  *)
(*   data, packed, call, result: a call of a from_bytes decoder: the bytes *)
(*     passed, the record they were packed from, the decoder called and    *)
(*     what it returned or raised.                                         *)
(*   position, mark_price, health, pnl: a call of the risk functions.      *)
(*   accounts: the ledger, each address absent (None) or holding bytes.    *)
(*   pc, user_addresses, market_state, idx, liquidatable: one call of      *)
(*     monitor_liquidations: where it is, its argument, its locals.        *)
(*   market_rpc, position_log: what the ledger client answered to the      *)
(*     scan's fetches, and what get_position returned for each candidate.  *)
(*   outcome: what the call of monitor_liquidations gave its caller.       *)
(*   summary: what a call of get_position_summary returned, and for whom.  *)
(*   op, built, sent: a call of one of the four operations with its        *)
(*     arguments, the instruction it built or the exception the building   *)
(*     raised, and what the call gave its caller.                          *)
(*   on_curve, derived: the seeds and bumps whose hash is a point of the   *)
(*     curve, and the calls of the address getters with their results.     *)
(*   price, program_price, price_back: a price in units of 10^-9, what     *)
(*     price_to_program returned for it and price_from_program for that.   *)
(***************************************************************************)
VARIABLES data, packed, call, result,
          position, mark_price, health, pnl,
          accounts, pc, user_addresses, market_state, idx, liquidatable,
          market_rpc, position_log, outcome, summary,
          op, built, sent, on_curve, derived,
          price, program_price, price_back

codecVars == <<data, packed, call, result>>

riskVars == <<position, mark_price, health, pnl>>

monitorVars == <<accounts, pc, user_addresses, market_state, idx, liquidatable,
                 market_rpc, position_log, outcome, summary>>

instrVars == <<op, built, sent>>

pdaVars == <<on_curve, derived>>

priceVars == <<price, program_price, price_back>>

toolVars == <<instrVars, pdaVars, priceVars>>

vars == <<codecVars, riskVars, monitorVars, toolVars>>

None == [is_none |-> TRUE]

Some(v) == [is_none |-> FALSE, value |-> v]

Unset == [unset |-> TRUE]

(***************************************************************************)
(* Inputs.                                                                 *)
(***************************************************************************)
\* trailing bytes an account may be allocated with beyond the fixed width
MaxSlack == 2

\* the small integers the risk functions are tried on, 0..MaxSmall
MaxSmall == 3

Two(n) == MkInt(FALSE, NShl(<<1>>, n))

I64_MIN == INeg(Two(63))

I64_MAX == ISub(Two(63), I(1))

U64_MAX == ISub(Two(64), I(1))

E9(n) == IMul(I(n), I(PRECISION))

NShlInt(a, k) == MkInt(a.neg, NShl(a.mag, k))

\* a 32-byte public key
Key(n) == <<n>> \o [i \in 1..31 |-> (7 * i + n) % 256]

Users == {Key(1), Key(2), Key(3)}

SignedSamples == {I64_MIN, I(-50000), I(0), I64_MAX}

UnsignedSamples == {I(0), E9(150), U64_MAX}

SamplePositions ==
    {[owner |-> o, base_amount |-> b, collateral |-> c,
      last_funding_index |-> f, entry_price |-> e] :
        o \in Users, b \in SignedSamples \cup {E9(1)}, c \in UnsignedSamples,
        f \in {I(-1), I(12345), I64_MAX}, e \in UnsignedSamples}

SampleMarketStates ==
    {[funding_index |-> fi, funding_rate_per_slot |-> fr, open_interest |-> oi,
      bump |-> b, last_funding_slot |-> s, mark_price |-> m] :
        fi \in {I64_MIN, I(-50000), I(1)}, fr \in {I(-1), I(10000), I64_MAX},
        oi \in {I(0), U64_MAX}, b \in {I(0), I(254), I(255)},
        s \in {I(12345678), U64_MAX}, m \in UnsignedSamples}

\* the records whose packings are also tried at every shorter length
ShortPositions ==
    {p \in SamplePositions :
        /\ p.owner = Key(1) /\ p.last_funding_index = I(12345)
        /\ p.collateral = E9(150) /\ p.entry_price = U64_MAX
        /\ p.base_amount \in {I(-50000), E9(1)}}

ShortMarketStates ==
    {m \in SampleMarketStates :
        /\ m.funding_index = I(-50000) /\ m.funding_rate_per_slot = I(10000)
        /\ m.open_interest = U64_MAX /\ m.bump = I(254)
        /\ m.last_funding_slot = I(12345678) /\ m.mark_price \in {E9(150), U64_MAX}}

SlackBytes(n) == [i \in 1..n |-> 255 - i]

RiskIdle ==
    /\ position = Unset /\ mark_price = Unset /\ health = Unset /\ pnl = Unset

CodecIdle ==
    /\ data = <<>> /\ packed = Unset /\ call = "" /\ result = Unset

MonitorIdle ==
    /\ accounts = <<>> /\ pc = "" /\ user_addresses = <<>> /\ market_state = Unset
    /\ idx = 0 /\ liquidatable = <<>> /\ market_rpc = Unset /\ position_log = <<>>
    /\ outcome = Unset /\ summary = Unset

InstrIdle ==
    /\ op = Unset /\ built = Unset /\ sent = Unset

PdaIdle ==
    /\ on_curve = {} /\ derived = <<>>

PriceIdle ==
    /\ price = Unset /\ program_price = Unset /\ price_back = Unset

ToolsIdle == InstrIdle /\ PdaIdle /\ PriceIdle

(***************************************************************************)
(* The codec specification: a buffer, and one call of a decoder on it.     *)
(***************************************************************************)
InitCodec ==
    /\ \/ \E p \in SamplePositions, n \in 0..MaxSlack :
              /\ packed = [type |-> "Position", record |-> p]
              /\ data = PackPosition(p) \o SlackBytes(n)
       \/ \E p \in ShortPositions, n \in 0..(POSITION_LEN - 1) :
              /\ packed = [type |-> "Position", record |-> p]
              /\ data = Slice(PackPosition(p), 0, n)
       \/ \E m \in SampleMarketStates, n \in 0..MaxSlack :
              /\ packed = [type |-> "MarketState", record |-> m]
              /\ data = PackMarketState(m) \o SlackBytes(n)
       \/ \E m \in ShortMarketStates, n \in 0..(MARKET_STATE_LEN - 1) :
              /\ packed = [type |-> "MarketState", record |-> m]
              /\ data = Slice(PackMarketState(m), 0, n)
    /\ call = "" /\ result = Unset
    /\ RiskIdle
    /\ MonitorIdle
    /\ ToolsIdle

DecodePosition ==
    /\ call = ""
    /\ call' = "Position.from_bytes"
    /\ result' = Position_from_bytes(data)
    /\ UNCHANGED <<data, packed, riskVars, monitorVars, toolVars>>

DecodeMarketState ==
    /\ call = ""
    /\ call' = "MarketState.from_bytes"
    /\ result' = MarketState_from_bytes(data)
    /\ UNCHANGED <<data, packed, riskVars, monitorVars, toolVars>>

NextCodec == DecodePosition \/ DecodeMarketState

SpecCodec == InitCodec /\ [][NextCodec]_vars

(***************************************************************************)
(* The risk specification: a Position and a mark price, and the calls of   *)
(* calculate_position_health and calculate_unrealized_pnl on them.         *)
(***************************************************************************)
Pos(b, c, f, e) ==
    [owner |-> Key(1), base_amount |-> b, collateral |-> c,
     last_funding_index |-> f, entry_price |-> e]

RiskBases ==
    {I(0), I(1), I(-1), E9(1), INeg(E9(1)), IAdd(Two(60), I(1)), I64_MIN}

RiskMarks == {I(n) : n \in 0..MaxSmall} \cup {E9(1), E9(101), U64_MAX}

\* collaterals at the liquidation threshold of a position value p:
\* (3p - 1) / 2 for p = 2^60 + 1, 2^52 + 1 and 2^52 - 1, and its neighbours
ThresholdPositions ==
    {Pos(IAdd(Two(60), I(1)), IAdd(NShlInt(I(3), 59), I(d)), I(0), I(0)) : d \in {0, 1, 2}}
        \cup {Pos(IAdd(Two(52), I(1)), IAdd(NShlInt(I(3), 51), I(1)), I(0), I(0)),
              Pos(ISub(Two(52), I(1)), ISub(NShlInt(I(3), 51), I(2)), I(0), I(0))}

RiskPositions ==
    {Pos(b, c, I(0), I(0)) :
        b \in RiskBases, c \in {I(n) : n \in 0..MaxSmall} \cup {E9(150), U64_MAX}}
        \cup {Pos(b, I(5), f, e) :
                b \in RiskBases, f \in {I(-1), I(12345)},
                e \in {I(0), I(2), IMul(I(1005), I(100000000)), U64_MAX}}
        \cup ThresholdPositions

InitRisk ==
    /\ position \in RiskPositions
    /\ mark_price \in RiskMarks
    /\ health = Unset /\ pnl = Unset
    /\ CodecIdle
    /\ MonitorIdle
    /\ ToolsIdle

CalcHealth ==
    /\ health = Unset
    /\ health' = calculate_position_health(position, mark_price)
    /\ UNCHANGED <<codecVars, position, mark_price, pnl, monitorVars, toolVars>>

CalcPnl ==
    /\ pnl = Unset
    /\ pnl' = calculate_unrealized_pnl(position, mark_price)
    /\ UNCHANGED <<codecVars, position, mark_price, health, monitorVars, toolVars>>

NextRisk == CalcHealth \/ CalcPnl

SpecRisk == InitRisk /\ [][NextRisk]_vars

(***************************************************************************)
(* The ledger and the account fetches.                                     *)
(***************************************************************************)
\* the derived addresses, each standing for its seeds
get_position_address(user) == <<"position", user>>

get_market_state_address == <<"market">>

Addresses == {get_market_state_address} \cup {get_position_address(u) : u \in Users}

RpcAbsent == [kind |-> "absent"]

RpcData(d) == [kind |-> "data", data |-> d]

RpcError == [kind |-> "error"]

\* the answers AsyncClient.get_account_info(address) can give: the account as
\* the ledger holds it now (response.value None, or its data), or an
\* exception of the transport
get_account_info(address) ==
    {RpcError} \cup {IF accounts[address].is_none THEN RpcAbsent
                     ELSE RpcData(accounts[address].value)}

\* mutant: get_position without its try/except
get_position_NoCatch(response) ==
    IF response.kind = "error" THEN Raise("transport error")
    ELSE IF response.kind = "absent" THEN Ok(None)
    ELSE LET r == Position_from_bytes(response.data)
         IN  IF r.ok THEN Ok(Some(r.value)) ELSE r

\* get_position, given the answer of get_account_info for the user's
\* position address: every exception is caught and becomes None
get_position(response) ==
    IF response.kind = "error" THEN Ok(None)
    ELSE IF response.kind = "absent" THEN Ok(None)
    ELSE LET r == Position_from_bytes(response.data)
         IN  IF r.ok THEN Ok(Some(r.value)) ELSE Ok(None)

\* mutant: get_market_state inventing a market state for a missing account
get_market_state_Fabricated(response) ==
    IF response.kind = "error" THEN Ok(None)
    ELSE IF response.kind = "absent"
    THEN Ok(Some([funding_index |-> IZero, funding_rate_per_slot |-> IZero,
                  open_interest |-> IZero, bump |-> IZero,
                  last_funding_slot |-> IZero, mark_price |-> E9(100)]))
    ELSE LET r == MarketState_from_bytes(response.data)
         IN  IF r.ok THEN Ok(Some(r.value)) ELSE Ok(None)

\* get_market_state, given the answer for the market-state address
get_market_state(response) ==
    IF response.kind = "error" THEN Ok(None)
    ELSE IF response.kind = "absent" THEN Ok(None)
    ELSE LET r == MarketState_from_bytes(response.data)
         IN  IF r.ok THEN Ok(Some(r.value)) ELSE Ok(None)

(***************************************************************************)
(* The monitor specification: a ledger, one call of monitor_liquidations   *)
(* on a list of candidates, and the ledger changing under it.              *)
(***************************************************************************)
\* candidates per scan
MaxCands == 3

Market(m) ==
    [funding_index |-> I(-50000), funding_rate_per_slot |-> I(10000),
     open_interest |-> E9(1000), bump |-> I(254), last_funding_slot |-> I(12345678),
     mark_price |-> m]

\* market-state accounts with mark prices 100 and 0.5
LiveMarkets ==
    {Some(PackMarketState(Market(E9(100)))),
     Some(PackMarketState(Market(I(500000000))) \o SlackBytes(MaxSlack))}

\* the market-state account at the start of a scan: live, missing or undersized
MarketOptions ==
    LiveMarkets \cup
    {None, Some(Slice(PackMarketState(Market(E9(100))), 0, MARKET_STATE_LEN - 1))}

UserPosition(u, b, c) ==
    [owner |-> u, base_amount |-> b, collateral |-> c,
     last_funding_index |-> I(-7), entry_price |-> E9(100)]

\* the position accounts at the start of a scan.  At mark price 100: a short
\* of health 1.2 (an account with slack bytes), a flat position and no
\* account; or a long of health exactly 1.5, a long of 10^-9 units and
\* health 1.49 (at mark price 0.5 its value truncates to 0) and an
\* undersized account
PositionLedgers ==
    {[u \in Users |->
        IF u = Key(1)
        THEN Some(PackPosition(UserPosition(u, INeg(E9(1)), E9(120))) \o SlackBytes(MaxSlack))
        ELSE IF u = Key(2)
        THEN Some(PackPosition(UserPosition(u, I(0), E9(1))))
        ELSE None],
     [u \in Users |->
        IF u = Key(1)
        THEN Some(PackPosition(UserPosition(u, E9(1), E9(150))))
        ELSE IF u = Key(2)
        THEN Some(PackPosition(UserPosition(u, I(1), I(149))))
        ELSE Some(Slice(PackPosition(UserPosition(u, E9(1), E9(1))), 0, POSITION_LEN - 1))]}

CandidateLists == UNION {[1..n -> Users] : n \in 0..MaxCands}

Init ==
    /\ \E m \in MarketOptions, l \in PositionLedgers :
           accounts = [a \in Addresses |->
                          IF a = get_market_state_address THEN m ELSE l[a[2]]]
    /\ pc = "idle"
    /\ user_addresses = <<>> /\ market_state = Unset /\ idx = 0
    /\ liquidatable = <<>> /\ market_rpc = Unset /\ position_log = <<>>
    /\ outcome = Unset /\ summary = Unset
    /\ CodecIdle /\ RiskIdle /\ ToolsIdle

\* the call: liquidatable = []
StartScan ==
    /\ pc = "idle"
    /\ \E cands \in CandidateLists : user_addresses' = cands
    /\ liquidatable' = <<>>
    /\ pc' = "market"
    /\ UNCHANGED <<accounts, market_state, idx, market_rpc, position_log,
                   outcome, summary, codecVars, riskVars, toolVars>>

\* market_state = await get_market_state(); if not market_state: return
ScanFetchMarket ==
    /\ pc = "market"
    /\ \E response \in get_account_info(get_market_state_address) :
           LET r == get_market_state(response)
           IN  /\ market_rpc' = response
               /\ IF ~r.ok
                  THEN /\ pc' = "raised" /\ outcome' = r
                       /\ UNCHANGED <<market_state, idx>>
                  ELSE IF r.value.is_none
                  THEN /\ pc' = "done" /\ outcome' = Ok(liquidatable)
                       /\ UNCHANGED <<market_state, idx>>
                  ELSE /\ market_state' = r.value.value
                       /\ idx' = 1
                       /\ pc' = "loop"
                       /\ UNCHANGED outcome
    /\ UNCHANGED <<accounts, user_addresses, liquidatable, position_log, summary,
                   codecVars, riskVars, toolVars>>

\* a variant of the iteration: the health is taken at the mark price the
\* ledger holds when the candidate is reached
ScanCandidate_LivePrice ==
    /\ pc = "loop"
    /\ idx <= Len(user_addresses)
    /\ LET user == user_addresses[idx]
       IN  \E response \in get_account_info(get_position_address(user)) :
               LET r == get_position(response)
               IN  /\ position_log' = Append(position_log,
                                             [user |-> user, rpc |-> response, returned |-> r])
                   /\ IF ~r.ok
                      THEN /\ pc' = "raised" /\ outcome' = r
                           /\ UNCHANGED <<idx, liquidatable>>
                      ELSE IF r.value.is_none \/ IsZero(r.value.value.base_amount)
                      THEN idx' = idx + 1 /\ UNCHANGED <<pc, liquidatable, outcome>>
                      ELSE /\ liquidatable' =
                                  IF is_liquidatable(calculate_position_health(
                                         r.value.value,
                                         MarketState_from_bytes(
                                             accounts[get_market_state_address].value
                                         ).value.mark_price))
                                  THEN Append(liquidatable, user)
                                  ELSE liquidatable
                           /\ idx' = idx + 1
                           /\ UNCHANGED <<pc, outcome>>
    /\ UNCHANGED <<accounts, user_addresses, market_state, market_rpc, summary,
                   codecVars, riskVars, toolVars>>

\* one iteration of the loop over user_addresses
ScanCandidate ==
    /\ pc = "loop"
    /\ idx <= Len(user_addresses)
    /\ LET user == user_addresses[idx]
       IN  \E response \in get_account_info(get_position_address(user)) :
               LET r == get_position(response)
               IN  /\ position_log' = Append(position_log,
                                             [user |-> user, rpc |-> response, returned |-> r])
                   /\ IF ~r.ok
                      THEN /\ pc' = "raised" /\ outcome' = r
                           /\ UNCHANGED <<idx, liquidatable>>
                      ELSE IF r.value.is_none \/ IsZero(r.value.value.base_amount)
                      THEN idx' = idx + 1 /\ UNCHANGED <<pc, liquidatable, outcome>>
                      ELSE /\ liquidatable' =
                                  IF is_liquidatable(calculate_position_health(
                                         r.value.value, market_state.mark_price))
                                  THEN Append(liquidatable, user)
                                  ELSE liquidatable
                           /\ idx' = idx + 1
                           /\ UNCHANGED <<pc, outcome>>
    /\ UNCHANGED <<accounts, user_addresses, market_state, market_rpc, summary,
                   codecVars, riskVars, toolVars>>

\* return liquidatable
ScanReturn ==
    /\ pc = "loop"
    /\ idx > Len(user_addresses)
    /\ pc' = "done"
    /\ outcome' = Ok(liquidatable)
    /\ UNCHANGED <<accounts, user_addresses, market_state, idx, liquidatable,
                   market_rpc, position_log, summary, codecVars, riskVars, toolVars>>

CancelledError == "CancelledError"

\* the caller cancels the task running the scan while it is suspended in a
\* fetch: asyncio raises CancelledError at that await; it is no Exception,
\* so get_market_state and get_position do not catch it, and
\* monitor_liquidations has no handler: the caller gets the CancelledError
ScanCancel ==
    /\ \/ pc = "market"
       \/ pc = "loop" /\ idx <= Len(user_addresses)
    /\ pc' = "cancelled"
    /\ outcome' = Raise(CancelledError)
    /\ UNCHANGED <<accounts, user_addresses, market_state, idx, liquidatable,
                   market_rpc, position_log, summary, codecVars, riskVars, toolVars>>

\* the external program moves the mark price (initialising the market-state
\* account if need be) while the scan is suspended in a fetch; a position
\* account is read once per candidate, so a change of it before the read is
\* another initial ledger
LedgerWrite ==
    /\ pc \in {"market", "loop"}
    /\ \E v \in LiveMarkets \ {accounts[get_market_state_address]} :
           accounts' = [accounts EXCEPT ![get_market_state_address] = v]
    /\ UNCHANGED <<pc, user_addresses, market_state, idx, liquidatable,
                   market_rpc, position_log, outcome, summary,
                   codecVars, riskVars, toolVars>>

Next ==
    StartScan \/ ScanFetchMarket \/ ScanCandidate \/ ScanReturn \/ ScanCancel \/ LedgerWrite

Spec == Init /\ [][Next]_vars

(***************************************************************************)
(* The four operations: the instruction each builds, and its submission.   *)
(***************************************************************************)
INSTRUCTION_OPEN_POSITION == 0

INSTRUCTION_UPDATE_FUNDING == 1

INSTRUCTION_LIQUIDATE == 2

INSTRUCTION_CLOSE_POSITION == 3

OPEN_POSITION_DATA_LEN == 25

TOKEN_PROGRAM_ID == "TOKEN_PROGRAM_ID"

SYSVAR_RENT_PUBKEY == "SYSVAR_RENT_PUBKEY"

SYSVAR_CLOCK_PUBKEY == "SYSVAR_CLOCK_PUBKEY"

SYS_PROGRAM_ID == "SYS_PROGRAM_ID"

\* self.program_id
ProgramId == "program_id"

\* the address of the vault, standing for its seeds [PDA_SEED]
get_program_authority == <<"perps">>

AccountMeta(pubkey, is_signer, is_writable) ==
    [pubkey |-> pubkey, is_signer |-> is_signer, is_writable |-> is_writable]

Instruction(payload, accts) ==
    [program_id |-> ProgramId, data |-> payload, accounts |-> accts]

PackRangeError == "struct.error: argument out of range"

\* struct.pack('<q', v) for any int v
struct_pack_q(v) ==
    IF ILe(I64_MIN, v) /\ ILe(v, I64_MAX) THEN Ok(PackSignedQ(v))
    ELSE Raise(PackRangeError)

\* struct.pack('<Q', v) for any int v
struct_pack_Q(v) ==
    IF ~ILt(v, IZero) /\ ILe(v, U64_MAX) THEN Ok(PackQ(v))
    ELSE Raise(PackRangeError)

\* bytearray slice assignment b[lo:hi] = v
SetSlice(b, lo, hi, v) == Slice(b, 0, lo) \o v \o Slice(b, hi, Len(b))

\* a variant of the payload: collateral_delta and entry_price packed in each
\* other's place
open_position_data_Swapped(base_delta, collateral_delta, entry_price) ==
    LET b == struct_pack_q(base_delta)
        c == struct_pack_Q(collateral_delta)
        e == struct_pack_Q(entry_price)
    IN  IF ~b.ok THEN b ELSE IF ~c.ok THEN c ELSE IF ~e.ok THEN e
        ELSE Ok(SetSlice(SetSlice(SetSlice(
                    SetSlice(Zeros(OPEN_POSITION_DATA_LEN), 0, 1, <<INSTRUCTION_OPEN_POSITION>>),
                    1, 9, b.value), 9, 17, e.value), 17, 25, c.value))

\* the instruction data of open_position: bytearray(25), the opcode at 0 and
\* the three packed fields assigned in the order of the code
open_position_data(base_delta, collateral_delta, entry_price) ==
    LET b == struct_pack_q(base_delta)
        c == struct_pack_Q(collateral_delta)
        e == struct_pack_Q(entry_price)
    IN  IF ~b.ok THEN b ELSE IF ~c.ok THEN c ELSE IF ~e.ok THEN e
        ELSE Ok(SetSlice(SetSlice(SetSlice(
                    SetSlice(Zeros(OPEN_POSITION_DATA_LEN), 0, 1, <<INSTRUCTION_OPEN_POSITION>>),
                    1, 9, b.value), 9, 17, c.value), 17, 25, e.value))

\* open_position up to the Instruction, for the client's payer
open_position(payer, base_delta, collateral_delta, entry_price, user_token_account) ==
    LET vault_pda        == get_program_authority
        position_pda     == get_position_address(payer)
        market_state_pda == get_market_state_address
        instruction_data == open_position_data(base_delta, collateral_delta, entry_price)
    IN  IF ~instruction_data.ok THEN instruction_data
        ELSE Ok(Instruction(instruction_data.value,
                 <<AccountMeta(payer, TRUE, FALSE),
                   AccountMeta(TOKEN_PROGRAM_ID, FALSE, FALSE),
                   AccountMeta(user_token_account, FALSE, TRUE),
                   AccountMeta(vault_pda, FALSE, TRUE),
                   AccountMeta(position_pda, FALSE, TRUE),
                   AccountMeta(market_state_pda, FALSE, TRUE),
                   AccountMeta(SYSVAR_RENT_PUBKEY, FALSE, FALSE),
                   AccountMeta(SYSVAR_CLOCK_PUBKEY, FALSE, FALSE),
                   AccountMeta(SYS_PROGRAM_ID, FALSE, FALSE)>>))

\* update_funding up to the Instruction
update_funding ==
    LET market_state_pda == get_market_state_address
    IN  Ok(Instruction(<<INSTRUCTION_UPDATE_FUNDING>>,
             <<AccountMeta(market_state_pda, FALSE, TRUE),
               AccountMeta(SYSVAR_CLOCK_PUBKEY, FALSE, FALSE)>>))

\* a variant of liquidate: the position account derived for the payer
liquidate_OwnPosition(payer, position_owner, liquidator_token_account) ==
    Ok(Instruction(<<INSTRUCTION_LIQUIDATE>>,
         <<AccountMeta(payer, TRUE, FALSE),
           AccountMeta(TOKEN_PROGRAM_ID, FALSE, FALSE),
           AccountMeta(liquidator_token_account, FALSE, TRUE),
           AccountMeta(get_program_authority, FALSE, TRUE),
           AccountMeta(get_position_address(payer), FALSE, TRUE),
           AccountMeta(get_market_state_address, FALSE, TRUE),
           AccountMeta(SYSVAR_CLOCK_PUBKEY, FALSE, FALSE)>>))

\* liquidate up to the Instruction
liquidate(payer, position_owner, liquidator_token_account) ==
    LET vault_pda        == get_program_authority
        position_pda     == get_position_address(position_owner)
        market_state_pda == get_market_state_address
    IN  Ok(Instruction(<<INSTRUCTION_LIQUIDATE>>,
             <<AccountMeta(payer, TRUE, FALSE),
               AccountMeta(TOKEN_PROGRAM_ID, FALSE, FALSE),
               AccountMeta(liquidator_token_account, FALSE, TRUE),
               AccountMeta(vault_pda, FALSE, TRUE),
               AccountMeta(position_pda, FALSE, TRUE),
               AccountMeta(market_state_pda, FALSE, TRUE),
               AccountMeta(SYSVAR_CLOCK_PUBKEY, FALSE, FALSE)>>))

\* close_position up to the Instruction
close_position(payer, user_token_account) ==
    LET vault_pda        == get_program_authority
        position_pda     == get_position_address(payer)
        market_state_pda == get_market_state_address
    IN  Ok(Instruction(<<INSTRUCTION_CLOSE_POSITION>>,
             <<AccountMeta(payer, TRUE, FALSE),
               AccountMeta(TOKEN_PROGRAM_ID, FALSE, FALSE),
               AccountMeta(user_token_account, FALSE, TRUE),
               AccountMeta(vault_pda, FALSE, TRUE),
               AccountMeta(position_pda, FALSE, TRUE),
               AccountMeta(market_state_pda, FALSE, TRUE)>>))

\* token accounts of the callers
TokenAccounts == {Key(4), Key(5)}

\* arguments for base_delta: the ends of the i64 range, the values next to
\* them on the outside, and values between
BaseDeltas ==
    {I64_MIN, ISub(I64_MIN, I(1)), INeg(E9(5)), I(-1), I(0), E9(1), I64_MAX,
     IAdd(I64_MAX, I(1))}

\* arguments for collateral_delta and entry_price, likewise for u64
UnsignedArgs == {I(-1), I(0), E9(99), E9(200), U64_MAX, IAdd(U64_MAX, I(1))}

Operations ==
    {[name |-> "open_position", payer |-> p, base_delta |-> b,
      collateral_delta |-> c, entry_price |-> e, user_token_account |-> t] :
        p \in Users, b \in BaseDeltas, c \in UnsignedArgs, e \in UnsignedArgs,
        t \in {Key(4)}}
    \cup {[name |-> "update_funding", payer |-> p] : p \in Users}
    \cup {[name |-> "liquidate", payer |-> p, position_owner |-> o,
           liquidator_token_account |-> t] :
             p \in Users, o \in Users, t \in TokenAccounts}
    \cup {[name |-> "close_position", payer |-> p, user_token_account |-> t] :
             p \in Users, t \in TokenAccounts}

InitInstr ==
    /\ op \in Operations
    /\ built = Unset /\ sent = Unset
    /\ on_curve = {} /\ derived = <<>>
    /\ PriceIdle
    /\ CodecIdle /\ RiskIdle /\ MonitorIdle

\* the operation runs up to its Instruction; an exception of the building
\* is what the caller gets
BuildInstruction ==
    /\ built = Unset
    /\ built' = CASE op.name = "open_position" ->
                       open_position(op.payer, op.base_delta, op.collateral_delta,
                                     op.entry_price, op.user_token_account)
                  [] op.name = "update_funding" -> update_funding
                  [] op.name = "liquidate" ->
                       liquidate(op.payer, op.position_owner, op.liquidator_token_account)
                  [] op.name = "close_position" ->
                       close_position(op.payer, op.user_token_account)
    /\ sent' = IF built'.ok THEN sent ELSE built'
    /\ UNCHANGED <<op, pdaVars, priceVars, codecVars, riskVars, monitorVars>>

SubmissionError == "submission failed"

\* the transaction goes to the ledger client, which returns a signature or
\* raises
Submit ==
    /\ built # Unset /\ built.ok
    /\ sent = Unset
    /\ sent' \in {Ok("signature"), Raise(SubmissionError)}
    /\ UNCHANGED <<op, built, pdaVars, priceVars, codecVars, riskVars, monitorVars>>

NextInstr == BuildInstruction \/ Submit

SpecInstr == InitInstr /\ [][NextInstr]_vars

(***************************************************************************)
(* Address derivation: Pubkey.find_program_address(seeds, program_id) of   *)
(* the ledger library, for the client's program_id.  The hash of the       *)
(* seeds, a bump and the program id is an address unless it is a point of  *)
(* the curve; on_curve holds the <<seeds, bump>> for which it is one.      *)
(***************************************************************************)
\* bumps are one byte
MAX_BUMP == 255

\* leading bumps of one seed list whose hash is on the curve
MaxOnCurve == 1

\* calls of the address getters in one behaviour
MaxCalls == 2

SeedLists ==
    {get_program_authority, get_market_state_address}
        \cup {get_position_address(u) : u \in Users}

NoViableBump == "Unable to find a viable program address bump seed"

\* the address of the seeds extended by the bump, which stands for its
\* preimage, or a failure if the hash is on the curve
create_program_address(seeds, bump) ==
    IF <<seeds, bump>> \in on_curve THEN Raise("InvalidSeeds")
    ELSE Ok(<<"pda", ProgramId, seeds, bump>>)

\* the search of find_program_address: the bumps are tried from 255
\* downwards and the first that gives an address is taken, which is the
\* greatest bump that gives one; with n bumps of the seeds on the curve it
\* is among the n + 1 greatest
TryBump(seeds) ==
    LET n      == Cardinality({e \in on_curve : e[1] = seeds})
        lowest == IF n > MAX_BUMP THEN 0 ELSE MAX_BUMP - n
        viable == {b \in lowest..MAX_BUMP : create_program_address(seeds, b).ok}
    IN  IF viable = {} THEN Raise(NoViableBump)
        ELSE LET bump == CHOOSE b \in viable : \A c \in viable : c <= b
             IN  Ok([address |-> create_program_address(seeds, bump).value,
                     bump |-> bump])

\* a variant: the number of earlier calls enters the derivation
find_program_address_Salted(seeds) ==
    LET r == TryBump(seeds)
    IN  IF r.ok THEN Ok([address |-> <<r.value.address, Len(derived)>>,
                         bump |-> r.value.bump])
        ELSE r

\* Pubkey.find_program_address(seeds, self.program_id): the first bump from
\* 255 downwards that gives an address, with that address
find_program_address(seeds) == TryBump(seeds)

\* the sets on_curve tried: for each seed list none of its bumps, its first
\* MaxOnCurve bumps from 255 downwards, or all of them
OnCurveOptions ==
    {UNION {{<<sl, MAX_BUMP - j>> : j \in 0..(k[sl] - 1)} : sl \in SeedLists} :
        k \in [SeedLists -> {0, MaxOnCurve, MAX_BUMP + 1}]}

InitPda ==
    /\ on_curve \in OnCurveOptions
    /\ derived = <<>>
    /\ InstrIdle /\ PriceIdle
    /\ CodecIdle /\ RiskIdle /\ MonitorIdle

\* the record of a call of a getter: what it returned or raised
Derived(fn, arg, seeds) ==
    [fn |-> fn, arg |-> arg, result |-> find_program_address(seeds)]

CallGetProgramAuthority ==
    /\ Len(derived) < MaxCalls
    /\ derived' = Append(derived,
                         Derived("get_program_authority", <<>>, get_program_authority))
    /\ UNCHANGED <<on_curve, instrVars, priceVars, codecVars, riskVars, monitorVars>>

CallGetPositionAddress ==
    /\ Len(derived) < MaxCalls
    /\ \E user \in Users :
           derived' = Append(derived,
                             Derived("get_position_address", user,
                                     get_position_address(user)))
    /\ UNCHANGED <<on_curve, instrVars, priceVars, codecVars, riskVars, monitorVars>>

CallGetMarketStateAddress ==
    /\ Len(derived) < MaxCalls
    /\ derived' = Append(derived,
                         Derived("get_market_state_address", <<>>,
                                 get_market_state_address))
    /\ UNCHANGED <<on_curve, instrVars, priceVars, codecVars, riskVars, monitorVars>>

NextPda == CallGetProgramAuthority \/ CallGetPositionAddress \/ CallGetMarketStateAddress

SpecPda == InitPda /\ [][NextPda]_vars

(***************************************************************************)
(* The price conversions.                                                  *)
(***************************************************************************)
\* x * k of Python for a finite float x >= 0 and an int 0 < k < 2^53: k
\* converts to a float exactly, and the product is the double nearest to
\* the exact product, ties to even
FloatMulInt(x, k) ==
    LET prod == NMul(x.man, k.mag)
        nb   == NBits(prod)
    IN  IF nb <= DBL_MANT_DIG THEN Float(prod, x.exp)
        ELSE IF nb <= DBL_MANT_DIG + 2 THEN RoundHalfEven(prod, FALSE, x.exp)
        ELSE LET cut == nb - DBL_MANT_DIG - 2
                 d   == NDivMod(prod, NShl(<<1>>, cut))
             IN  RoundHalfEven(d.q, d.r # <<>>, x.exp + cut)

\* int(x) of Python for a finite float x >= 0: the fraction is dropped
FloatToInt(x) ==
    IF x.exp >= 0 THEN MkInt(FALSE, NShl(x.man, x.exp))
    ELSE MkInt(FALSE, NDivMod(x.man, NShl(<<1>>, -x.exp)).q)

\* price_to_program(price) == int(price * PRECISION)
price_to_program(p) == FloatToInt(FloatMulInt(p, I(PRECISION)))

\* price_from_program(program_price) == program_price / PRECISION
price_from_program(v) == TrueDiv(v, I(PRECISION))

\* the float a decimal literal of n * 10^-9 denotes: the double nearest to it
DecimalLiteral(n) == TrueDiv(n, I(PRECISION))

\* the prices 0 .. MaxNanos * 10^-9 are tried, and the ones below
MaxNanos == 40

\* 0.01, 1.005, 8.2, 100.0, 100.5 and 123456.789012345 in units of 10^-9
PriceSamples ==
    {I(n) : n \in 0..MaxNanos}
        \cup {I(10000000), I(1005000000), IMul(I(82), I(100000000)), E9(100),
              IAdd(E9(100), I(500000000)),
              IAdd(E9(123456), I(789012345))}

InitPrice ==
    /\ \E n \in PriceSamples : price = [nanos |-> n, value |-> DecimalLiteral(n)]
    /\ program_price = Unset /\ price_back = Unset
    /\ InstrIdle /\ PdaIdle
    /\ CodecIdle /\ RiskIdle /\ MonitorIdle

ToProgram ==
    /\ program_price = Unset
    /\ program_price' = price_to_program(price.value)
    /\ UNCHANGED <<price, price_back, instrVars, pdaVars, codecVars, riskVars, monitorVars>>

FromProgram ==
    /\ program_price # Unset /\ price_back = Unset
    /\ price_back' = price_from_program(program_price)
    /\ UNCHANGED <<price, program_price, instrVars, pdaVars, codecVars, riskVars,
                   monitorVars>>

NextPrice == ToProgram \/ FromProgram

SpecPrice == InitPrice /\ [][NextPrice]_vars

(***************************************************************************)
(* The summary specification: a ledger, one call of get_position_summary   *)
(* for a user and then one call of monitor_liquidations([user]) on the     *)
(* same ledger.                                                            *)
(***************************************************************************)
\* a / b of Python for an int a of either sign and b > 0
SignedTrueDiv(a, b) == [neg |-> a.neg /\ ~IsZero(a), abs |-> TrueDiv(IAbs(a), b)]

\* a variant of the summary: liquidatable at health <= 1.5
get_position_summary_Le(position_response, market_response) ==
    LET p == get_position(position_response).value
    IN  IF p.is_none THEN [exists |-> FALSE]
        ELSE LET m == get_market_state(market_response).value
             IN  IF m.is_none
                 THEN [exists |-> TRUE, error |-> "Market state not available"]
                 ELSE LET pos == p.value
                          h   == calculate_position_health(pos, m.value.mark_price)
                          u   == calculate_unrealized_pnl(pos, m.value.mark_price)
                      IN  [exists          |-> TRUE,
                           owner           |-> <<"str", pos.owner>>,
                           size            |-> SignedTrueDiv(pos.base_amount, I(PRECISION)),
                           collateral      |-> price_from_program(pos.collateral),
                           entry_price     |-> price_from_program(pos.entry_price),
                           mark_price      |-> price_from_program(m.value.mark_price),
                           health_ratio    |-> h,
                           unrealized_pnl  |-> SignedTrueDiv(u, I(PRECISION)),
                           is_liquidatable |-> is_liquidatable_Le(h),
                           position_type   |->
                               IF ILt(IZero, pos.base_amount) THEN "Long"
                               ELSE IF ILt(pos.base_amount, IZero) THEN "Short"
                               ELSE "None"]

\* get_position_summary, given the answers of get_account_info for the
\* user's position address and for the market-state address; the market
\* state is only fetched when the position was returned
get_position_summary(position_response, market_response) ==
    LET p == get_position(position_response).value
    IN  IF p.is_none THEN [exists |-> FALSE]
        ELSE LET m == get_market_state(market_response).value
             IN  IF m.is_none
                 THEN [exists |-> TRUE, error |-> "Market state not available"]
                 ELSE LET pos == p.value
                          h   == calculate_position_health(pos, m.value.mark_price)
                          u   == calculate_unrealized_pnl(pos, m.value.mark_price)
                      IN  [exists          |-> TRUE,
                           owner           |-> <<"str", pos.owner>>,
                           size            |-> SignedTrueDiv(pos.base_amount, I(PRECISION)),
                           collateral      |-> price_from_program(pos.collateral),
                           entry_price     |-> price_from_program(pos.entry_price),
                           mark_price      |-> price_from_program(m.value.mark_price),
                           health_ratio    |-> h,
                           unrealized_pnl  |-> SignedTrueDiv(u, I(PRECISION)),
                           is_liquidatable |-> is_liquidatable(h),
                           position_type   |->
                               IF ILt(IZero, pos.base_amount) THEN "Long"
                               ELSE IF ILt(pos.base_amount, IZero) THEN "Short"
                               ELSE "None"]

InitSummary ==
    /\ \E m \in MarketOptions, l \in PositionLedgers :
           accounts = [a \in Addresses |->
                          IF a = get_market_state_address THEN m ELSE l[a[2]]]
    /\ pc = "idle"
    /\ user_addresses = <<>> /\ market_state = Unset /\ idx = 0
    /\ liquidatable = <<>> /\ market_rpc = Unset /\ position_log = <<>>
    /\ outcome = Unset /\ summary = Unset
    /\ CodecIdle /\ RiskIdle /\ ToolsIdle

\* the call of get_position_summary(user)
Summarise ==
    /\ pc = "idle" /\ summary = Unset
    /\ \E user \in Users :
         \E pr \in get_account_info(get_position_address(user)),
            mr \in get_account_info(get_market_state_address) :
             summary' = [user         |-> user,
                         position_rpc |-> pr,
                         market_rpc   |-> IF get_position(pr).value.is_none
                                          THEN Unset ELSE mr,
                         value        |-> get_position_summary(pr, mr)]
    /\ UNCHANGED <<accounts, pc, user_addresses, market_state, idx, liquidatable,
                   market_rpc, position_log, outcome, codecVars, riskVars, toolVars>>

\* the call of monitor_liquidations([user]) for the user of the summary
StartScanOne ==
    /\ pc = "idle" /\ summary # Unset
    /\ user_addresses' = <<summary.user>>
    /\ liquidatable' = <<>>
    /\ pc' = "market"
    /\ UNCHANGED <<accounts, market_state, idx, market_rpc, position_log,
                   outcome, summary, codecVars, riskVars, toolVars>>

NextSummary ==
    Summarise \/ StartScanOne \/ ScanFetchMarket \/ ScanCandidate \/ ScanReturn

SpecSummary == InitSummary /\ [][NextSummary]_vars

(***************************************************************************)
(* Claims about the codec, under SpecCodec.                                *)
(***************************************************************************)
\* C1: a buffer shorter than the fixed width (64 bytes for a Position, 41 for
\* a MarketState, the empty buffer included) makes from_bytes fail with the
\* length-validation error; it never returns a record.
C1_ShortBufferRejected ==
    /\ (call = "Position.from_bytes" /\ Len(data) < 64)
           => (~result.ok /\ result = Raise(InvalidPositionLength))
    /\ (call = "MarketState.from_bytes" /\ Len(data) < 41)
           => (~result.ok /\ result = Raise(InvalidMarketStateLength))

C1_Witness ==
    /\ call = "Position.from_bytes" /\ Len(data) = 63
    /\ result = Raise(InvalidPositionLength)

\* C9: from_bytes applied to the 64-byte packing of a Position, or the 41-byte
\* packing of a MarketState, returns the record that was packed, field by
\* field, signed fields with their sign.
C9_RoundTrip ==
    /\ (call = "Position.from_bytes" /\ packed.type = "Position" /\ Len(data) = 64)
           => result = Ok(packed.record)
    /\ (call = "MarketState.from_bytes" /\ packed.type = "MarketState" /\ Len(data) = 41)
           => result = Ok(packed.record)

C9_Witness ==
    /\ call = "Position.from_bytes" /\ packed.type = "Position" /\ Len(data) = 64
    /\ result.ok
    /\ result.value.base_amount = I64_MIN
    /\ result.value.collateral = U64_MAX
    /\ result.value.last_funding_index = I(-1)

\* C10: a buffer of at least the fixed width is accepted, and decodes as its
\* first 64 (Position) or 41 (MarketState) bytes do: trailing bytes are ignored.
C10_TrailingIgnored ==
    /\ (call = "Position.from_bytes" /\ Len(data) >= 64)
           => (result.ok /\ result = Position_from_bytes(Slice(data, 0, 64)))
    /\ (call = "MarketState.from_bytes" /\ Len(data) >= 41)
           => (result.ok /\ result = MarketState_from_bytes(Slice(data, 0, 41)))

C10_Witness ==
    /\ call = "MarketState.from_bytes" /\ packed.type = "MarketState"
    /\ Len(data) > 41
    /\ result = Ok(packed.record)

(***************************************************************************)
(* Claims about the risk functions, under SpecRisk.                        *)
(***************************************************************************)
\* the quotient truncated toward zero
ITruncDiv(a, b) == MkInt(a.neg # b.neg, NDivMod(a.mag, b.mag).q)

\* |base_amount| * markPrice / 10^9, truncated
PositionValue(p, m) == ITruncDiv(IMul(IAbs(p.base_amount), m), I(1000000000))

\* C6: for base_amount # 0 the PnL is (markPrice - entryPrice) * |base_amount|
\* / 10^9 for a long and (entryPrice - markPrice) * |base_amount| / 10^9 for a
\* short, the quotient truncated toward zero, also when it is negative.
C6_TruncatingPnl ==
    (pnl # Unset /\ ~IsZero(position.base_amount))
        => pnl = ITruncDiv(IMul(IF position.base_amount.neg
                                THEN ISub(position.entry_price, mark_price)
                                ELSE ISub(mark_price, position.entry_price),
                                IAbs(position.base_amount)),
                           I(1000000000))

\* C7 as stated: for base_amount # 0, health is infinite when the truncated
\* position value is 0, and otherwise the real quotient collateral /
\* positionValue, so health < 1.5 exactly when 2 * collateral < 3 * positionValue.
C7_RealQuotient ==
    (health # Unset /\ ~IsZero(position.base_amount))
        => LET pv == PositionValue(position, mark_price)
           IN  IF IsZero(pv) THEN health = FloatInf
               ELSE /\ health.kind = "fin"
                    /\ is_liquidatable(health)
                           <=> ILt(IMul(I(2), position.collateral), IMul(I(3), pv))

\* |man * 2^exp * pv - c| <= 2^exp * pv / 2 (both sides scaled by 2^-exp when
\* exp < 0): no double of that exponent is nearer to c / pv, a tie went to
\* the even mantissa, and man has 53 bits (or is 2^53 after a carry)
NearestDouble(h, c, pv) ==
    LET up   == IF h.exp > 0 THEN h.exp ELSE 0
        down == IF h.exp < 0 THEN -h.exp ELSE 0
        ulp  == NShlInt(pv, up)
        err  == IAbs(ISub(IMul(MkInt(FALSE, h.man), ulp), NShlInt(c, down)))
    IN  /\ NBits(h.man) = 53 \/ h.man = NShl(<<1>>, 53)
        /\ ILe(IMul(I(2), err), ulp)
        /\ (IMul(I(2), err) = ulp) => h.man[1] % 2 = 0

\* C7, amended: for base_amount # 0, health is infinite when the truncated
\* position value is 0; otherwise it is the double nearest to collateral /
\* positionValue (ties to even), so that health < 1.5 exactly when
\* 2^53 * collateral < (3 * 2^52 - 1) * positionValue, which is the same as
\* 2 * collateral < 3 * positionValue whenever positionValue < 2^52.
C7_NearestDouble ==
    (health # Unset /\ ~IsZero(position.base_amount))
        => LET pv == PositionValue(position, mark_price)
               c  == position.collateral
           IN  IF IsZero(pv) THEN health = FloatInf
               ELSE /\ health.kind = "fin"
                    /\ IF IsZero(c) THEN health.man = <<>>
                       ELSE NearestDouble(health, c, pv)
                    /\ is_liquidatable(health)
                           <=> ILt(NShlInt(c, 53), IMul(ISub(NShlInt(I(3), 52), I(1)), pv))
                    /\ ILt(pv, Two(52))
                           => (is_liquidatable(health)
                                   <=> ILt(IMul(I(2), c), IMul(I(3), pv)))

C7_Witness ==
    /\ health # Unset
    /\ position.base_amount = IAdd(Two(60), I(1))
    /\ mark_price = E9(1)
    /\ position.collateral = IAdd(NShlInt(I(3), 59), I(1))
    /\ health = Float(NShl(<<3>>, 51), -52)
    /\ ~is_liquidatable(health)

\* C8: a flat position (base_amount = 0) has infinite health, zero PnL and is
\* never liquidatable, whatever its collateral, entry price, funding index
\* and the mark price.
C8_FlatInert ==
    IsZero(position.base_amount)
        => /\ health # Unset => (health = FloatInf /\ ~is_liquidatable(health))
           /\ pnl # Unset => pnl = IZero

C8_Witness ==
    /\ IsZero(position.base_amount)
    /\ position.collateral = I(5) /\ position.entry_price = U64_MAX
    /\ position.last_funding_index = I(-1)
    /\ mark_price = E9(101)
    /\ health = FloatInf /\ pnl = IZero

(***************************************************************************)
(* Claims about the liquidation monitor, under Spec.                       *)
(***************************************************************************)
\* the scan has returned after fetching a MarketState that decodes
ScanDoneWithMarket ==
    /\ pc = "done"
    /\ market_rpc # Unset
    /\ market_rpc.kind = "data"
    /\ Len(market_rpc.data) >= MARKET_STATE_LEN

\* the mark price of the account data the scan fetched
FetchedMarkPrice == MarketState_from_bytes(market_rpc.data).value.mark_price

\* the user's position account exists, decodes, is not flat and has a health
\* strictly below 3/2 at the fetched mark price
BelowThreshold(user) ==
    LET acct == accounts[get_position_address(user)]
    IN  /\ ~acct.is_none
        /\ Len(acct.value) >= POSITION_LEN
        /\ LET p == Position_from_bytes(acct.value).value
           IN  /\ ~IsZero(p.base_amount)
               /\ FloatLt(calculate_position_health(p, FetchedMarkPrice),
                          Float(<<3>>, -1))

\* C2: with MarketState present, the result of a scan holds a candidate whose
\* fetch was answered exactly when its Position exists, has base_amount # 0
\* and has health strictly below 1.5 at the fetched mark price; nothing else
\* is in the result.
C2_ExactSelection ==
    ScanDoneWithMarket =>
        /\ \A i \in 1..Len(user_addresses) :
               position_log[i].rpc.kind # "error"
                   => (BelowThreshold(user_addresses[i])
                           <=> \E j \in 1..Len(liquidatable) :
                                   liquidatable[j] = user_addresses[i])
        /\ \A j \in 1..Len(liquidatable) :
               \E i \in 1..Len(user_addresses) :
                   /\ user_addresses[i] = liquidatable[j]
                   /\ position_log[i].rpc.kind # "error"

\* three candidates, one without a position, one flat and one of health 1.2:
\* the result is the third alone
C2_Witness ==
    /\ ScanDoneWithMarket
    /\ FetchedMarkPrice = E9(100)
    /\ user_addresses = <<Key(3), Key(2), Key(1)>>
    /\ accounts[get_position_address(Key(3))] = None
    /\ \A i \in 1..3 : position_log[i].rpc.kind # "error"
    /\ IsZero(position_log[2].returned.value.value.base_amount)
    /\ calculate_position_health(position_log[3].returned.value.value, FetchedMarkPrice)
           = TrueDiv(I(6), I(5))
    /\ liquidatable = <<Key(1)>>

\* C3: when the fetch finds no MarketState account the scan returns the empty
\* list at once: no Position is fetched and no candidate is reported.
C3_MissingMarketAborts ==
    (market_rpc # Unset /\ market_rpc.kind = "absent")
        => /\ pc = "done"
           /\ liquidatable = <<>>
           /\ position_log = <<>>
           /\ market_state = Unset

C3_Witness ==
    /\ market_rpc # Unset /\ market_rpc.kind = "absent"
    /\ pc = "done"
    /\ Len(user_addresses) = MaxCands
    /\ \E i \in 1..Len(user_addresses) : user_addresses[i] = Key(1)
    /\ liquidatable = <<>>

\* the fetch or the decoding of candidate i failed
CandidateFailed(i) ==
    \/ position_log[i].rpc.kind = "error"
    \/ /\ position_log[i].rpc.kind = "data"
       /\ Len(position_log[i].rpc.data) < POSITION_LEN

RECURSIVE Survivors(_)
\* the first n candidates without the ones that failed
Survivors(n) ==
    IF n = 0 THEN <<>>
    ELSE IF CandidateFailed(n) THEN Survivors(n - 1)
    ELSE Append(Survivors(n - 1), user_addresses[n])

\* C4: a fetch or decode failure for one candidate never ends the scan: every
\* candidate is fetched, and the result is the one of the list without the
\* failing candidates.
C4_FailureExcludesOne ==
    /\ pc # "raised"
    /\ ScanDoneWithMarket =>
           /\ Len(position_log) = Len(user_addresses)
           /\ liquidatable = SelectSeq(Survivors(Len(user_addresses)), BelowThreshold)

\* a transport failure and an undersized account, each followed by a
\* candidate that is reported
C4_Witness ==
    /\ ScanDoneWithMarket
    /\ user_addresses = <<Key(2), Key(3), Key(2)>>
    /\ position_log[1].rpc.kind = "error"
    /\ position_log[2].rpc.kind = "data"
    /\ Len(position_log[2].rpc.data) = POSITION_LEN - 1
    /\ position_log[3].rpc.kind = "data"
    /\ liquidatable = <<Key(2)>>

\* C5: a position account that does not exist is reported as absence, one
\* that holds fewer than 64 bytes as a length-validation failure.
C5_AbsentVsUndersized ==
    \A i \in 1..Len(position_log) :
        /\ position_log[i].rpc.kind = "absent"
               => position_log[i].returned = Ok(None)
        /\ (position_log[i].rpc.kind = "data"
                /\ Len(position_log[i].rpc.data) < POSITION_LEN)
               => position_log[i].returned = Raise(InvalidPositionLength)

\* C11: a scan cancelled while it is in progress hands the addresses it had
\* collected before the cancellation to its caller.
C11_PartialResultsReturned ==
    (pc = "cancelled" /\ liquidatable # <<>>) => outcome = Ok(liquidatable)

\* what the loop decides for one candidate from the record get_position
\* returned for it and a mark price
OwnVerdict(returned, mark) ==
    /\ returned.ok /\ ~returned.value.is_none
    /\ ~IsZero(returned.value.value.base_amount)
    /\ FloatLt(calculate_position_health(returned.value.value, mark), Float(<<3>>, -1))

RECURSIVE SelectedUpTo(_)
\* the first n candidates that their own verdict at the fetched mark price
\* selects, in the order of the list
SelectedUpTo(n) ==
    IF n = 0 THEN <<>>
    ELSE IF OwnVerdict(position_log[n].returned, FetchedMarkPrice)
    THEN Append(SelectedUpTo(n - 1), user_addresses[n])
    ELSE SelectedUpTo(n - 1)

\* C17: a scan fetches MarketState once, before any Position, and never
\* again; each candidate is in the result exactly when its own fetched
\* position is below the threshold at the mark price of that one fetch,
\* whatever the ledger's market state has become and whatever the other
\* candidates are.
C17_SingleSnapshot ==
    /\ [][/\ market_rpc # Unset => market_rpc' = market_rpc
          /\ market_state # Unset => market_state' = market_state
          /\ position_log' # position_log
                 => (market_rpc # Unset /\ market_state # Unset)]_vars
    /\ [](pc = "done" => market_rpc # Unset)
    /\ [](ScanDoneWithMarket
              => liquidatable = SelectedUpTo(Len(user_addresses)))

\* the mark price moved from 100 to 0.5 during the scan; at 0.5 the value of
\* the second user's position is 0 and its health infinite, at the fetched
\* 100 it is reported
C17_Witness ==
    /\ ScanDoneWithMarket
    /\ FetchedMarkPrice = E9(100)
    /\ accounts[get_market_state_address]
           = Some(PackMarketState(Market(I(500000000))) \o SlackBytes(MaxSlack))
    /\ user_addresses = <<Key(1), Key(2)>>
    /\ position_log[2].rpc.kind = "data"
    /\ calculate_position_health(position_log[2].returned.value.value, I(500000000))
           = FloatInf
    /\ liquidatable = <<Key(2)>>

(***************************************************************************)
(* Claims about the four operations, under SpecInstr.                      *)
(***************************************************************************)
\* the account table of an operation: role and flag (S signer, W writable)
AccountTable(name) ==
    CASE name = "open_position" ->
           <<<<"payer", "S">>, <<"token-program", "">>, <<"user-token-account", "W">>,
             <<"vault", "W">>, <<"position", "W">>, <<"market", "W">>,
             <<"rent-sysvar", "">>, <<"clock-sysvar", "">>, <<"system-program", "">>>>
      [] name = "update_funding" ->
           <<<<"market", "W">>, <<"clock-sysvar", "">>>>
      [] name = "liquidate" ->
           <<<<"payer", "S">>, <<"token-program", "">>, <<"liquidator-token-account", "W">>,
             <<"vault", "W">>, <<"position", "W">>, <<"market", "W">>,
             <<"clock-sysvar", "">>>>
      [] name = "close_position" ->
           <<<<"payer", "S">>, <<"token-program", "">>, <<"user-token-account", "W">>,
             <<"vault", "W">>, <<"position", "W">>, <<"market", "W">>>>

\* the account a role stands for in the operation called
RoleAccount(role) ==
    CASE role = "payer" -> op.payer
      [] role = "token-program" -> TOKEN_PROGRAM_ID
      [] role = "user-token-account" -> op.user_token_account
      [] role = "liquidator-token-account" -> op.liquidator_token_account
      [] role = "vault" -> <<"perps">>
      [] role = "position" ->
           <<"position", IF op.name = "liquidate" THEN op.position_owner ELSE op.payer>>
      [] role = "market" -> <<"market">>
      [] role = "rent-sysvar" -> SYSVAR_RENT_PUBKEY
      [] role = "clock-sysvar" -> SYSVAR_CLOCK_PUBKEY
      [] role = "system-program" -> SYS_PROGRAM_ID

\* C12: each operation lists its accounts in the order and with the signer
\* and writable flags of the table; the position account is the one derived
\* for the payer in open_position and close_position and for the given
\* owner in liquidate.
C12_AccountOrder ==
    (built # Unset /\ built.ok) =>
        LET table == AccountTable(op.name)
            accts == built.value.accounts
        IN  /\ Len(accts) = Len(table)
            /\ \A i \in 1..Len(table) :
                   accts[i] = [pubkey      |-> RoleAccount(table[i][1]),
                               is_signer   |-> table[i][2] = "S",
                               is_writable |-> table[i][2] = "W"]

\* a liquidation of somebody else's position
C12_Witness ==
    /\ built # Unset /\ built.ok
    /\ op.name = "liquidate"
    /\ op.payer = Key(1) /\ op.position_owner = Key(2)
    /\ Len(built.value.accounts) = 7
    /\ built.value.accounts[1] = [pubkey |-> Key(1), is_signer |-> TRUE, is_writable |-> FALSE]
    /\ built.value.accounts[5].pubkey = <<"position", Key(2)>>

Opcode(name) ==
    CASE name = "open_position" -> 0
      [] name = "update_funding" -> 1
      [] name = "liquidate" -> 2
      [] name = "close_position" -> 3

\* the arguments of an open_position are within their types' ranges
OpenArgsInRange ==
    /\ ILe(I64_MIN, op.base_delta) /\ ILe(op.base_delta, I64_MAX)
    /\ ILe(IZero, op.collateral_delta) /\ ILe(op.collateral_delta, U64_MAX)
    /\ ILe(IZero, op.entry_price) /\ ILe(op.entry_price, U64_MAX)

\* C13: a payload starts with its opcode; it is 1 byte for update_funding,
\* liquidate and close_position, and for open_position with arguments in
\* range 25 bytes whose bytes 1-8, 9-16 and 17-24 decode back little-endian
\* (signed, unsigned, unsigned) to the three arguments.
C13_Payload ==
    /\ (built # Unset /\ built.ok) =>
           LET payload == built.value.data
           IN  /\ Len(payload) >= 1 /\ payload[1] = Opcode(op.name)
               /\ op.name # "open_position" => Len(payload) = 1
               /\ op.name = "open_position" =>
                      /\ Len(payload) = 25
                      /\ UnpackSignedQ(SubSeq(payload, 2, 9)) = op.base_delta
                      /\ UnpackQ(SubSeq(payload, 10, 17)) = op.collateral_delta
                      /\ UnpackQ(SubSeq(payload, 18, 25)) = op.entry_price
    /\ (built # Unset /\ op.name = "open_position" /\ OpenArgsInRange) => built.ok

C13_Witness ==
    /\ op.name = "open_position"
    /\ op.base_delta = INeg(E9(5))
    /\ op.collateral_delta = E9(200)
    /\ op.entry_price = E9(99)
    /\ built # Unset /\ built.ok
    /\ Len(built.value.data) = 25 /\ built.value.data[1] = 0
    /\ built.value.data[9] = 255

\* C14: building the instruction never fails, whatever integers the caller
\* passes; only the submission can fail.
C14_BuildNeverFails ==
    /\ built # Unset => built.ok
    /\ (sent # Unset /\ ~sent.ok) => sent = Raise(SubmissionError)

WithinNano(x, n) ==
    LET scaled == IF x.exp >= 0
                  THEN [a |-> IMul(MkInt(FALSE, NShl(x.man, x.exp)), I(PRECISION)),
                        b |-> n, one |-> I(1)]
                  ELSE [a |-> IMul(MkInt(FALSE, x.man), I(PRECISION)),
                        b |-> NShlInt(n, -x.exp), one |-> Two(-x.exp)]
    IN  ILt(IAbs(ISub(scaled.a, scaled.b)), scaled.one)

\* C16: for a decimal d of at most 9 fractional digits price_to_program(d)
\* is exactly d * 10^9, and price_from_program of it is within 10^-9 of d.
C16_ExactConversion ==
    /\ program_price # Unset => program_price = price.nanos
    /\ price_back # Unset => WithinNano(price_back, price.nanos)

(***************************************************************************)
(* Claims about the two risk reports, under SpecSummary.                   *)
(***************************************************************************)
\* the ledger holds a MarketState and the summary's user's Position, and
\* every fetch of the summary and of the scan was answered
BothReportsMade ==
    /\ pc = "done" /\ summary # Unset
    /\ user_addresses = <<summary.user>>
    /\ ~accounts[get_market_state_address].is_none
    /\ Len(accounts[get_market_state_address].value) >= MARKET_STATE_LEN
    /\ ~accounts[get_position_address(summary.user)].is_none
    /\ Len(accounts[get_position_address(summary.user)].value) >= POSITION_LEN
    /\ summary.position_rpc.kind = "data"
    /\ summary.market_rpc # Unset /\ summary.market_rpc.kind = "data"
    /\ market_rpc # Unset /\ market_rpc.kind = "data"
    /\ Len(position_log) = 1 /\ position_log[1].rpc.kind = "data"

\* C18: on a ledger holding the MarketState and the user's Position,
\* get_position_summary(user) has is_liquidatable exactly when
\* monitor_liquidations([user]) returns [user]; a flat position has
\* is_liquidatable false and position_type "None".
C18_ReportsAgree ==
    BothReportsMade =>
        /\ summary.value.exists
        /\ summary.value.is_liquidatable <=> outcome = Ok(<<summary.user>>)
        /\ ~summary.value.is_liquidatable <=> outcome = Ok(<<>>)
        /\ IsZero(Position_from_bytes(
                      accounts[get_position_address(summary.user)].value
                  ).value.base_amount)
               => /\ ~summary.value.is_liquidatable
                  /\ summary.value.position_type = "None"

\* the short of health 1.2 is liquidatable in both reports
C18_Witness ==
    /\ BothReportsMade
    /\ summary.user = Key(1)
    /\ summary.value.position_type = "Short"
    /\ summary.value.health_ratio = TrueDiv(I(6), I(5))
    /\ summary.value.is_liquidatable
    /\ outcome = Ok(<<Key(1)>>)

====
